---- MODULE Spec2Model ----
(***************************************************************************)
(* A model of mock-anything: mock(target, key) replaces a method of an     *)
(* object by an interception function (mocker) whose outcome is resolved   *)
(* from the configured rules, and the restoration registry (restoreAll).   *)
(***************************************************************************)
EXTENDS Integers, Sequences, FiniteSets, TLC

VARIABLES
    target,          \* target[key] of every target/method pair
    stubs,           \* the closure state of every mock() call, in creation order
    activeRestores,  \* restoreAll.ts: the Set of restore functions, in insertion order
    flag,            \* the outer variable the until predicates read
    lastCall,        \* the operation of the last step and what its caller observed
    invocations      \* per stub: mocker entries since creation or the last reset

vars == <<target, stubs, activeRestores, flag, lastCall, invocations>>

----------------------------------------------------------------------------
(* Bounds of the model *)

MaxStubs == 2
MaxLifeCalls == 2
MaxFewCalls == 3
MaxCalls == 5
MaxIndex == 1
MaxTimes == 2
MaxRules == 1
MaxArgRules == 2
MaxCap == 2
MaxArgLen == 3

(* Input domains *)

Targets == {"a.fn", "b.fn"}
Values == {"A", "B"}
Errors == {"E"}
Predicates == {"always", "flag"}
ArgLists == {<<>>, <<1>>, <<1, 2>>, <<2, 2>>}

\* a number passed to times(n) / onCall(n): whole + half / 2
Num(w, h) == [whole |-> w, half |-> h]

\* -1, 0, 1 and 1.5
Counts == {Num(-1, 0), Num(0, 0), Num(1, 0), Num(1, 1)}

----------------------------------------------------------------------------
(* Values of the program *)

Null == [kind |-> "null"]
NullNum == -1

Orig(t) == [k |-> "orig", id |-> t]
MockerFn(s) == [k |-> "mocker", id |-> s]

\* a member of an object that is no function
Data(t) == [k |-> "data", id |-> t]

ReturnsImpl(v) == [kind |-> "returns", val |-> v]
ThrowsImpl(e) == [kind |-> "throws", val |-> e]
ResolvesImpl(v) == [kind |-> "resolves", val |-> v]

NoMode == [type |-> "none", n |-> 0]
OnceMode == [type |-> "once", n |-> 0]
TimesMode(n) == [type |-> "times", n |-> n]
OnCallMode(n) == [type |-> "onCall", n |-> n]
UntilMode == [type |-> "until", n |-> 0]

EmptyMap == [i \in 1..MaxIndex |-> Null]

MapHas(m, n) == n \in DOMAIN m /\ m[n] # Null

MapSet(m, n, impl) == [m EXCEPT ![n] = impl]

\* what invoking a configured closure produces
Fire(impl) ==
    CASE impl.kind = "returns" -> [how |-> "return", val |-> impl.val]
      [] impl.kind = "throws" -> [how |-> "throw", val |-> impl.val]
      [] impl.kind = "resolves" -> [how |-> "resolved", val |-> impl.val]

Undefined == [how |-> "return", val |-> "undefined"]

----------------------------------------------------------------------------
(* until.ts *)

createUntilState(predicate, maxCalls) ==
    [predicate |-> predicate, maxCalls |-> maxCalls, calls |-> 0, impl |-> Null]

shouldApplyUntil(u) == IF u.predicate = "always" THEN TRUE ELSE flag

applyUntil(u) ==
    LET u1 == [u EXCEPT !.calls = @ + 1]
    IN  IF u1.maxCalls # NullNum /\ u1.calls > u1.maxCalls
        THEN [state |-> u1, outcome |-> [how |-> "throw", val |-> "UntilExceeded"]]
        ELSE [state |-> u1,
              outcome |-> IF u1.impl # Null THEN Fire(u1.impl) ELSE Undefined]

resetUntil(u) == [u EXCEPT !.calls = 0]

----------------------------------------------------------------------------
(* mock.ts *)

\* the test of line 13 that lets every member through
isFunctionAlways(v) == TRUE

\* typeof original === "function"
isFunction(v) == v.k \in {"orig", "mocker"}

NewStub(id, t, original) ==
    [mockerFn |-> MockerFn(id),
     tgt |-> t,
     original |-> original,
     callCount |-> 0,
     callArgs |-> <<>>,
     implementation |-> ReturnsImpl("undefined"),
     onceImplementation |-> Null,
     timesRemaining |-> NullNum,
     timesImplementation |-> Null,
     onCallMap |-> EmptyMap,
     untilState |-> Null,
     pendingMode |-> NoMode,
     argRules |-> <<>>]

\* argsMatch without the length test: every expected argument is looked up
\* in the call, whatever the call's length
argsMatchNoLength(a, b) ==
    \A i \in 1..Len(a) : i <= Len(b) /\ a[i] = b[i]

argsMatch(a, b) ==
    Len(a) = Len(b) /\ \A i \in 1..Len(a) : a[i] = b[i]

\* the rule lookup that keeps going after a match: the last matching rule
LastMatch(rules, args) ==
    LET hits == {i \in 1..Len(rules) : argsMatch(rules[i].args, args)}
    IN  IF hits = {} THEN 0 ELSE CHOOSE i \in hits : \A j \in hits : i >= j

\* index of the first rule of argRules that matches, 0 when none does
FirstMatch(rules, args) ==
    LET hits == {i \in 1..Len(rules) : argsMatch(rules[i].args, args)}
    IN  IF hits = {} THEN 0 ELSE CHOOSE i \in hits : \A j \in hits : i <= j

\* callCount++ forgotten: the call is logged but not counted
countCallLogOnly(st, args) == [st EXCEPT !.callArgs = Append(@, args)]

\* mocker, lines 60-61: the call is counted and logged before any rule is looked up
countCall(st, args) ==
    [st EXCEPT !.callCount = @ + 1, !.callArgs = Append(@, args)]

\* resolve with the once rule looked up before the onCall map
resolveOnceFirst(st1, args) ==
    LET m == FirstMatch(st1.argRules, args)
    IN  IF st1.onceImplementation # Null
        THEN [st |-> [st1 EXCEPT !.onceImplementation = Null],
              source |-> "once", evaluated |-> FALSE,
              outcome |-> Fire(st1.onceImplementation)]
        ELSE IF MapHas(st1.onCallMap, st1.callCount)
        THEN [st |-> st1, source |-> "onCall", evaluated |-> FALSE,
              outcome |-> Fire(st1.onCallMap[st1.callCount])]
        ELSE IF st1.timesRemaining # NullNum /\ st1.timesRemaining > 0
                /\ st1.timesImplementation # Null
        THEN [st |-> [st1 EXCEPT !.timesRemaining = @ - 1],
              source |-> "times", evaluated |-> FALSE,
              outcome |-> Fire(st1.timesImplementation)]
        ELSE IF st1.untilState # Null /\ shouldApplyUntil(st1.untilState)
        THEN LET r == applyUntil(st1.untilState)
             IN  [st |-> [st1 EXCEPT !.untilState = r.state],
                  source |-> "until", evaluated |-> TRUE,
                  outcome |-> r.outcome]
        ELSE IF m # 0
        THEN [st |-> st1, source |-> "withArgs",
              evaluated |-> st1.untilState # Null,
              outcome |-> Fire(st1.argRules[m].impl)]
        ELSE [st |-> st1, source |-> "default",
              evaluated |-> st1.untilState # Null,
              outcome |-> Fire(st1.implementation)]

\* resolve with the until rule applied whenever an until state exists,
\* its predicate not consulted
resolveUntilAlways(st1, args) ==
    LET m == FirstMatch(st1.argRules, args)
    IN  IF MapHas(st1.onCallMap, st1.callCount)
        THEN [st |-> st1, source |-> "onCall", evaluated |-> FALSE,
              outcome |-> Fire(st1.onCallMap[st1.callCount])]
        ELSE IF st1.onceImplementation # Null
        THEN [st |-> [st1 EXCEPT !.onceImplementation = Null],
              source |-> "once", evaluated |-> FALSE,
              outcome |-> Fire(st1.onceImplementation)]
        ELSE IF st1.timesRemaining # NullNum /\ st1.timesRemaining > 0
                /\ st1.timesImplementation # Null
        THEN [st |-> [st1 EXCEPT !.timesRemaining = @ - 1],
              source |-> "times", evaluated |-> FALSE,
              outcome |-> Fire(st1.timesImplementation)]
        ELSE IF st1.untilState # Null
        THEN LET r == applyUntil(st1.untilState)
             IN  [st |-> [st1 EXCEPT !.untilState = r.state],
                  source |-> "until", evaluated |-> FALSE,
                  outcome |-> r.outcome]
        ELSE IF m # 0
        THEN [st |-> st1, source |-> "withArgs", evaluated |-> FALSE,
              outcome |-> Fire(st1.argRules[m].impl)]
        ELSE [st |-> st1, source |-> "default", evaluated |-> FALSE,
              outcome |-> Fire(st1.implementation)]

\* resolve with the once rule left armed after it fired
resolveOnceKept(st1, args) ==
    LET m == FirstMatch(st1.argRules, args)
    IN  IF MapHas(st1.onCallMap, st1.callCount)
        THEN [st |-> st1, source |-> "onCall", evaluated |-> FALSE,
              outcome |-> Fire(st1.onCallMap[st1.callCount])]
        ELSE IF st1.onceImplementation # Null
        THEN [st |-> st1, source |-> "once", evaluated |-> FALSE,
              outcome |-> Fire(st1.onceImplementation)]
        ELSE IF st1.timesRemaining # NullNum /\ st1.timesRemaining > 0
                /\ st1.timesImplementation # Null
        THEN [st |-> [st1 EXCEPT !.timesRemaining = @ - 1],
              source |-> "times", evaluated |-> FALSE,
              outcome |-> Fire(st1.timesImplementation)]
        ELSE IF st1.untilState # Null /\ shouldApplyUntil(st1.untilState)
        THEN LET r == applyUntil(st1.untilState)
             IN  [st |-> [st1 EXCEPT !.untilState = r.state],
                  source |-> "until", evaluated |-> TRUE,
                  outcome |-> r.outcome]
        ELSE IF m # 0
        THEN [st |-> st1, source |-> "withArgs",
              evaluated |-> st1.untilState # Null,
              outcome |-> Fire(st1.argRules[m].impl)]
        ELSE [st |-> st1, source |-> "default",
              evaluated |-> st1.untilState # Null,
              outcome |-> Fire(st1.implementation)]

\* resolve with the once rule looked at on call number 1 only
resolveOnceOnFirstCall(st1, args) ==
    LET m == FirstMatch(st1.argRules, args)
    IN  IF MapHas(st1.onCallMap, st1.callCount)
        THEN [st |-> st1, source |-> "onCall", evaluated |-> FALSE,
              outcome |-> Fire(st1.onCallMap[st1.callCount])]
        ELSE IF st1.callCount = 1 /\ st1.onceImplementation # Null
        THEN [st |-> [st1 EXCEPT !.onceImplementation = Null],
              source |-> "once", evaluated |-> FALSE,
              outcome |-> Fire(st1.onceImplementation)]
        ELSE IF st1.timesRemaining # NullNum /\ st1.timesRemaining > 0
                /\ st1.timesImplementation # Null
        THEN [st |-> [st1 EXCEPT !.timesRemaining = @ - 1],
              source |-> "times", evaluated |-> FALSE,
              outcome |-> Fire(st1.timesImplementation)]
        ELSE IF st1.untilState # Null /\ shouldApplyUntil(st1.untilState)
        THEN LET r == applyUntil(st1.untilState)
             IN  [st |-> [st1 EXCEPT !.untilState = r.state],
                  source |-> "until", evaluated |-> TRUE,
                  outcome |-> r.outcome]
        ELSE IF m # 0
        THEN [st |-> st1, source |-> "withArgs",
              evaluated |-> st1.untilState # Null,
              outcome |-> Fire(st1.argRules[m].impl)]
        ELSE [st |-> st1, source |-> "default",
              evaluated |-> st1.untilState # Null,
              outcome |-> Fire(st1.implementation)]

\* resolve with timesRemaining-- forgotten
resolveTimesKept(st1, args) ==
    LET m == FirstMatch(st1.argRules, args)
    IN  IF MapHas(st1.onCallMap, st1.callCount)
        THEN [st |-> st1, source |-> "onCall", evaluated |-> FALSE,
              outcome |-> Fire(st1.onCallMap[st1.callCount])]
        ELSE IF st1.onceImplementation # Null
        THEN [st |-> [st1 EXCEPT !.onceImplementation = Null],
              source |-> "once", evaluated |-> FALSE,
              outcome |-> Fire(st1.onceImplementation)]
        ELSE IF st1.timesRemaining # NullNum /\ st1.timesRemaining > 0
                /\ st1.timesImplementation # Null
        THEN [st |-> st1, source |-> "times", evaluated |-> FALSE,
              outcome |-> Fire(st1.timesImplementation)]
        ELSE IF st1.untilState # Null /\ shouldApplyUntil(st1.untilState)
        THEN LET r == applyUntil(st1.untilState)
             IN  [st |-> [st1 EXCEPT !.untilState = r.state],
                  source |-> "until", evaluated |-> TRUE,
                  outcome |-> r.outcome]
        ELSE IF m # 0
        THEN [st |-> st1, source |-> "withArgs",
              evaluated |-> st1.untilState # Null,
              outcome |-> Fire(st1.argRules[m].impl)]
        ELSE [st |-> st1, source |-> "default",
              evaluated |-> st1.untilState # Null,
              outcome |-> Fire(st1.implementation)]

\* resolve with the onCall entry deleted when it fires
resolveOnCallRemoved(st1, args) ==
    LET m == FirstMatch(st1.argRules, args)
    IN  IF MapHas(st1.onCallMap, st1.callCount)
        THEN [st |-> [st1 EXCEPT !.onCallMap = MapSet(@, st1.callCount, Null)],
              source |-> "onCall", evaluated |-> FALSE,
              outcome |-> Fire(st1.onCallMap[st1.callCount])]
        ELSE IF st1.onceImplementation # Null
        THEN [st |-> [st1 EXCEPT !.onceImplementation = Null],
              source |-> "once", evaluated |-> FALSE,
              outcome |-> Fire(st1.onceImplementation)]
        ELSE IF st1.timesRemaining # NullNum /\ st1.timesRemaining > 0
                /\ st1.timesImplementation # Null
        THEN [st |-> [st1 EXCEPT !.timesRemaining = @ - 1],
              source |-> "times", evaluated |-> FALSE,
              outcome |-> Fire(st1.timesImplementation)]
        ELSE IF st1.untilState # Null /\ shouldApplyUntil(st1.untilState)
        THEN LET r == applyUntil(st1.untilState)
             IN  [st |-> [st1 EXCEPT !.untilState = r.state],
                  source |-> "until", evaluated |-> TRUE,
                  outcome |-> r.outcome]
        ELSE IF m # 0
        THEN [st |-> st1, source |-> "withArgs",
              evaluated |-> st1.untilState # Null,
              outcome |-> Fire(st1.argRules[m].impl)]
        ELSE [st |-> st1, source |-> "default",
              evaluated |-> st1.untilState # Null,
              outcome |-> Fire(st1.implementation)]

\* resolve in which a firing onCall entry also uses up the once rule
resolveOnCallTakesOnce(st1, args) ==
    LET m == FirstMatch(st1.argRules, args)
    IN  IF MapHas(st1.onCallMap, st1.callCount)
        THEN [st |-> [st1 EXCEPT !.onceImplementation = Null],
              source |-> "onCall", evaluated |-> FALSE,
              outcome |-> Fire(st1.onCallMap[st1.callCount])]
        ELSE IF st1.onceImplementation # Null
        THEN [st |-> [st1 EXCEPT !.onceImplementation = Null],
              source |-> "once", evaluated |-> FALSE,
              outcome |-> Fire(st1.onceImplementation)]
        ELSE IF st1.timesRemaining # NullNum /\ st1.timesRemaining > 0
                /\ st1.timesImplementation # Null
        THEN [st |-> [st1 EXCEPT !.timesRemaining = @ - 1],
              source |-> "times", evaluated |-> FALSE,
              outcome |-> Fire(st1.timesImplementation)]
        ELSE IF st1.untilState # Null /\ shouldApplyUntil(st1.untilState)
        THEN LET r == applyUntil(st1.untilState)
             IN  [st |-> [st1 EXCEPT !.untilState = r.state],
                  source |-> "until", evaluated |-> TRUE,
                  outcome |-> r.outcome]
        ELSE IF m # 0
        THEN [st |-> st1, source |-> "withArgs",
              evaluated |-> st1.untilState # Null,
              outcome |-> Fire(st1.argRules[m].impl)]
        ELSE [st |-> st1, source |-> "default",
              evaluated |-> st1.untilState # Null,
              outcome |-> Fire(st1.implementation)]

\* mocker, lines 63-94: the rule lookup, on the stub state st1 that already
\* counts this call; evaluated tells whether the until predicate was called
resolve(st1, args) ==
    LET m == FirstMatch(st1.argRules, args)
    IN  IF MapHas(st1.onCallMap, st1.callCount)
        THEN [st |-> st1, source |-> "onCall", evaluated |-> FALSE,
              outcome |-> Fire(st1.onCallMap[st1.callCount])]
        ELSE IF st1.onceImplementation # Null
        THEN [st |-> [st1 EXCEPT !.onceImplementation = Null],
              source |-> "once", evaluated |-> FALSE,
              outcome |-> Fire(st1.onceImplementation)]
        ELSE IF st1.timesRemaining # NullNum /\ st1.timesRemaining > 0
                /\ st1.timesImplementation # Null
        THEN [st |-> [st1 EXCEPT !.timesRemaining = @ - 1],
              source |-> "times", evaluated |-> FALSE,
              outcome |-> Fire(st1.timesImplementation)]
        ELSE IF st1.untilState # Null /\ shouldApplyUntil(st1.untilState)
        THEN LET r == applyUntil(st1.untilState)
             IN  [st |-> [st1 EXCEPT !.untilState = r.state],
                  source |-> "until", evaluated |-> TRUE,
                  outcome |-> r.outcome]
        ELSE IF m # 0
        THEN [st |-> st1, source |-> "withArgs",
              evaluated |-> st1.untilState # Null,
              outcome |-> Fire(st1.argRules[m].impl)]
        ELSE [st |-> st1, source |-> "default",
              evaluated |-> st1.untilState # Null,
              outcome |-> Fire(st1.implementation)]

\* mocker that takes the count and the log entry back when the rule lookup raises
mockerCountsOnReturn(st, args) ==
    LET r == resolve(countCall(st, args), args)
    IN  IF r.outcome.how = "throw"
        THEN [r EXCEPT !.st.callCount = st.callCount, !.st.callArgs = st.callArgs]
        ELSE r

mocker(st, args) == resolve(countCall(st, args), args)

once(st) == [st EXCEPT !.pendingMode = OnceMode]

\* Number.isInteger(n)
isInteger(c) == c.half = 0

\* the test of lines 112 and 120 with zero let through
validCountOrZero(c) == isInteger(c) /\ c.whole >= 0

\* the negation of the test of lines 112 and 120: !Number.isInteger(n) || n <= 0
validCount(c) == isInteger(c) /\ c.whole > 0

\* times that stores the count in the slot at once, not in the pending mode
timesArmsCount(st, n) ==
    [st EXCEPT !.pendingMode = TimesMode(n), !.timesRemaining = n]

times(st, n) == [st EXCEPT !.pendingMode = TimesMode(n)]

onCall(st, n) == [st EXCEPT !.pendingMode = OnCallMode(n)]

until(st, predicate, maxCalls) ==
    [st EXCEPT !.untilState = createUntilState(predicate, maxCalls),
               !.pendingMode = UntilMode]

\* withArgs whose terminal call also clears the pending mode
withArgsClearsMode(st, expectedArgs, impl) ==
    [st EXCEPT !.argRules = Append(@, [args |-> expectedArgs, impl |-> impl]),
               !.pendingMode = NoMode]

withArgs(st, expectedArgs, impl) ==
    [st EXCEPT !.argRules = Append(@, [args |-> expectedArgs, impl |-> impl])]

\* setBehavior whose last branch is not an else: the default is overwritten
\* whatever the pending mode
setBehaviorAlsoDefault(st, impl) ==
    LET d == [st EXCEPT !.implementation = impl]
    IN  IF st.pendingMode.type = "onCall"
        THEN [d EXCEPT !.onCallMap = MapSet(@, st.pendingMode.n, impl),
                       !.pendingMode = NoMode]
        ELSE IF st.pendingMode.type = "once"
        THEN [d EXCEPT !.onceImplementation = impl, !.pendingMode = NoMode]
        ELSE IF st.pendingMode.type = "times"
        THEN [d EXCEPT !.timesRemaining = st.pendingMode.n,
                       !.timesImplementation = impl,
                       !.pendingMode = NoMode]
        ELSE IF st.pendingMode.type = "until" /\ st.untilState # Null
        THEN [d EXCEPT !.untilState.impl = impl, !.pendingMode = NoMode]
        ELSE d

\* the common body of returns / throws / resolves
setBehavior(st, impl) ==
    IF st.pendingMode.type = "onCall"
    THEN [st EXCEPT !.onCallMap = MapSet(@, st.pendingMode.n, impl),
                    !.pendingMode = NoMode]
    ELSE IF st.pendingMode.type = "once"
    THEN [st EXCEPT !.onceImplementation = impl, !.pendingMode = NoMode]
    ELSE IF st.pendingMode.type = "times"
    THEN [st EXCEPT !.timesRemaining = st.pendingMode.n,
                    !.timesImplementation = impl,
                    !.pendingMode = NoMode]
    ELSE IF st.pendingMode.type = "until" /\ st.untilState # Null
    THEN [st EXCEPT !.untilState.impl = impl, !.pendingMode = NoMode]
    ELSE [st EXCEPT !.implementation = impl]

\* reset that takes back the last call instead of clearing the history
resetUndoesLastCall(st) ==
    [st EXCEPT !.callCount = IF @ > 0 THEN @ - 1 ELSE 0,
               !.callArgs = IF @ # <<>> THEN SubSeq(@, 1, Len(@) - 1) ELSE @,
               !.onceImplementation = Null,
               !.timesRemaining = NullNum,
               !.timesImplementation = Null,
               !.pendingMode = NoMode,
               !.onCallMap = EmptyMap,
               !.untilState = IF @ # Null THEN resetUntil(@) ELSE @]

\* reset that zeroes the counter and leaves the log as it is
resetCountOnly(st) ==
    [st EXCEPT !.callCount = 0,
               !.onceImplementation = Null,
               !.timesRemaining = NullNum,
               !.timesImplementation = Null,
               !.pendingMode = NoMode,
               !.onCallMap = EmptyMap,
               !.untilState = IF @ # Null THEN resetUntil(@) ELSE @]

\* reset that leaves an armed once rule in place
resetKeepsOnce(st) ==
    [st EXCEPT !.callCount = 0,
               !.callArgs = <<>>,
               !.timesRemaining = NullNum,
               !.timesImplementation = Null,
               !.pendingMode = NoMode,
               !.onCallMap = EmptyMap,
               !.untilState = IF @ # Null THEN resetUntil(@) ELSE @]

\* reset that also drops the withArgs rules
resetClearsArgRules(st) ==
    [st EXCEPT !.callCount = 0,
               !.callArgs = <<>>,
               !.onceImplementation = Null,
               !.timesRemaining = NullNum,
               !.timesImplementation = Null,
               !.pendingMode = NoMode,
               !.onCallMap = EmptyMap,
               !.argRules = <<>>,
               !.untilState = IF @ # Null THEN resetUntil(@) ELSE @]

\* reset without line 244: the until hit counter is left as it is
resetKeepsUntilHits(st) ==
    [st EXCEPT !.callCount = 0,
               !.callArgs = <<>>,
               !.onceImplementation = Null,
               !.timesRemaining = NullNum,
               !.timesImplementation = Null,
               !.pendingMode = NoMode,
               !.onCallMap = EmptyMap]

reset(st) ==
    [st EXCEPT !.callCount = 0,
               !.callArgs = <<>>,
               !.onceImplementation = Null,
               !.timesRemaining = NullNum,
               !.timesImplementation = Null,
               !.pendingMode = NoMode,
               !.onCallMap = EmptyMap,
               !.untilState = IF @ # Null THEN resetUntil(@) ELSE @]

called(st) == st.callCount

\* Array.prototype.slice(): a new array that holds the elements of arr
\* themselves, each named here by its position in arr
slice(arr) == [i \in 1..Len(arr) |-> i]

\* what a reader finds in list, an array of elements of arr
read(list, arr) == [i \in 1..Len(list) |-> arr[list[i]]]

calledArgs(st) == read(slice(st.callArgs), st.callArgs)

\* restoreFn that puts back the original of every method, not only its own
restoreFnAllTargets(tg, st) ==
    [t \in DOMAIN tg |-> IF t = st.tgt THEN st.original ELSE Orig(t)]

\* restoreFn that writes only while the stub's own mocker is installed
restoreFnIfInstalled(tg, st) ==
    IF tg[st.tgt] = st.mockerFn THEN [tg EXCEPT ![st.tgt] = st.original] ELSE tg

\* restoreFn of stub st applied to the targets tg
restoreFn(tg, st) == [tg EXCEPT ![st.tgt] = st.original]

----------------------------------------------------------------------------
(* restoreAll.ts *)

InSeq(x, seq) == \E i \in 1..Len(seq) : seq[i] = x

registerRestore(set, fn) == IF InSeq(fn, set) THEN set ELSE Append(set, fn)

\* unregisterRestore over an array, as splice(indexOf(fn), 1): a function that
\* is not registered takes the last entry away
unregisterRestoreSplice(set, fn) ==
    IF InSeq(fn, set) THEN SelectSeq(set, LAMBDA x : x # fn)
    ELSE IF set = <<>> THEN set
    ELSE SubSeq(set, 1, Len(set) - 1)

\* unregisterRestore that deletes nothing
unregisterRestoreKeeps(set, fn) == set

unregisterRestore(set, fn) == SelectSeq(set, LAMBDA x : x # fn)

\* the for-of loop of restoreAll: every restore function, in insertion order
RECURSIVE runRestores(_, _)
runRestores(tg, set) ==
    IF set = <<>> THEN tg
    ELSE runRestores(restoreFn(tg, stubs[Head(set)]), Tail(set))

\* restoreAll that clears the registry without calling the restore functions
restoreAllOnlyClears(tg, set) == tg

restoreAll(tg, set) == runRestores(tg, set)

----------------------------------------------------------------------------
(* The state machine *)

StubIds == 1..Len(stubs)

\* lastCall of a step that is no invocation: the operation and its stub
Did(op, s) ==
    [op |-> op, stub |-> s, source |-> "none", evaluated |-> FALSE,
     outcome |-> Undefined]

NoCall == Did("none", 0)

\* lastCall of a step whose operation threw err to its caller
Raised(op, s, err) ==
    [Did(op, s) EXCEPT !.outcome = [how |-> "throw", val |-> err]]

\* the methods that are promise-returning (async fetchUser), the others being
\* synchronous (getUser)
IsAsync(t) == t = "b.fn"

\* no mock() call has been made
Init ==
    /\ target = [t \in Targets |-> Orig(t)]
    /\ stubs = <<>>
    /\ activeRestores = <<>>
    /\ flag = TRUE
    /\ lastCall = NoCall
    /\ invocations = <<>>

\* const m = mock(a, "fn") has been evaluated
InitOne ==
    /\ target = [t \in Targets |-> IF t = "a.fn" THEN MockerFn(1) ELSE Orig(t)]
    /\ stubs = <<NewStub(1, "a.fn", Orig("a.fn"))>>
    /\ activeRestores = <<1>>
    /\ flag = TRUE
    /\ lastCall = NoCall
    /\ invocations = <<0>>

\* const m = mock(obj, key) has been evaluated, on either method
InitEither ==
    \E t \in Targets :
       /\ target = [u \in Targets |-> IF u = t THEN MockerFn(1) ELSE Orig(u)]
       /\ stubs = <<NewStub(1, t, Orig(t))>>
       /\ activeRestores = <<1>>
       /\ flag = TRUE
       /\ lastCall = NoCall
       /\ invocations = <<0>>

\* b.fn is a member that holds no function
InitMembers ==
    /\ target = [t \in Targets |-> IF t = "b.fn" THEN Data(t) ELSE Orig(t)]
    /\ stubs = <<>>
    /\ activeRestores = <<>>
    /\ flag = TRUE
    /\ lastCall = NoCall
    /\ invocations = <<>>

\* mock(target, key): throws when the member is no function
Mock(t) ==
    IF isFunction(target[t])
    THEN /\ Len(stubs) < MaxStubs
         /\ stubs' = Append(stubs, NewStub(Len(stubs) + 1, t, target[t]))
         /\ target' = [target EXCEPT ![t] = MockerFn(Len(stubs) + 1)]
         /\ activeRestores' = registerRestore(activeRestores, Len(stubs) + 1)
         /\ invocations' = Append(invocations, 0)
         /\ lastCall' = Did("mock", Len(stubs) + 1)
         /\ UNCHANGED flag
    ELSE /\ lastCall' = Raised("mock", 0, "NotAFunction")
         /\ UNCHANGED <<target, stubs, activeRestores, flag, invocations>>

\* a call on the handle of stub s that leaves it as st
Configure(s, st) ==
    /\ stubs' = [stubs EXCEPT ![s] = st]
    /\ lastCall' = Did("configure", s)
    /\ UNCHANGED <<target, activeRestores, flag, invocations>>

Once(s) == Configure(s, once(stubs[s]))

Times(s, n) == Configure(s, times(stubs[s], n))

OnCall(s, n) == Configure(s, onCall(stubs[s], n))

\* a call on the handle of stub s that throws err before it assigns anything
ConfigureRaises(s, err) ==
    /\ lastCall' = Raised("configure", s, err)
    /\ UNCHANGED <<target, stubs, activeRestores, flag, invocations>>

\* times(n) with any number n
TimesCall(s, c) ==
    IF validCount(c) THEN Times(s, c.whole) ELSE ConfigureRaises(s, "InvalidArgument")

\* onCall(n) with any number n
OnCallCall(s, c) ==
    IF validCount(c) THEN OnCall(s, c.whole) ELSE ConfigureRaises(s, "InvalidArgument")

Until(s, p, m) == Configure(s, until(stubs[s], p, m))

Returns(s, v) == Configure(s, setBehavior(stubs[s], ReturnsImpl(v)))

Throws(s, e) == Configure(s, setBehavior(stubs[s], ThrowsImpl(e)))

Resolves(s, v) == Configure(s, setBehavior(stubs[s], ResolvesImpl(v)))

WithArgsReturns(s, a, v, max) ==
    /\ Len(stubs[s].argRules) < max
    /\ Configure(s, withArgs(stubs[s], a, ReturnsImpl(v)))

WithArgsThrows(s, a, e, max) ==
    /\ Len(stubs[s].argRules) < max
    /\ Configure(s, withArgs(stubs[s], a, ThrowsImpl(e)))

WithArgsResolves(s, a, v, max) ==
    /\ Len(stubs[s].argRules) < max
    /\ Configure(s, withArgs(stubs[s], a, ResolvesImpl(v)))

\* reset() that also puts the interception function back on the target
ResetRepatches(s) ==
    /\ stubs' = [stubs EXCEPT ![s] = reset(stubs[s])]
    /\ invocations' = [invocations EXCEPT ![s] = 0]
    /\ lastCall' = Did("reset", s)
    /\ target' = [target EXCEPT ![stubs[s].tgt] = stubs[s].mockerFn]
    /\ UNCHANGED <<activeRestores, flag>>

Reset(s) ==
    /\ stubs' = [stubs EXCEPT ![s] = reset(stubs[s])]
    /\ invocations' = [invocations EXCEPT ![s] = 0]
    /\ lastCall' = Did("reset", s)
    /\ UNCHANGED <<target, activeRestores, flag>>

Restore(s) ==
    /\ target' = restoreFn(target, stubs[s])
    /\ activeRestores' = unregisterRestore(activeRestores, s)
    /\ lastCall' = Did("restore", s)
    /\ UNCHANGED <<stubs, flag, invocations>>

RestoreAll ==
    /\ target' = restoreAll(target, activeRestores)
    /\ activeRestores' = <<>>
    /\ lastCall' = Did("restoreAll", 0)
    /\ UNCHANGED <<stubs, flag, invocations>>

\* target[key](...args) by a caller: the mocker of a stub, or an original
Invoke(t, args, max) ==
    IF target[t].k = "mocker"
    THEN LET s == target[t].id
             r == mocker(stubs[s], args)
         IN  /\ stubs[s].callCount < max
             /\ stubs' = [stubs EXCEPT ![s] = r.st]
             /\ invocations' = [invocations EXCEPT ![s] = @ + 1]
             /\ lastCall' = [op |-> "invoke", stub |-> s, source |-> r.source,
                             evaluated |-> r.evaluated, outcome |-> r.outcome]
             /\ UNCHANGED <<target, activeRestores, flag>>
    ELSE /\ lastCall' = [op |-> "invoke", stub |-> 0, source |-> "original",
                         evaluated |-> FALSE,
                         outcome |-> [how |-> "original", val |-> target[t].id]]
         /\ UNCHANGED <<target, stubs, activeRestores, flag, invocations>>

\* m.called(): the caller receives callCount
Called(s) ==
    /\ lastCall' = [Did("called", s) EXCEPT
                       !.outcome = [how |-> "count", val |-> called(stubs[s])]]
    /\ UNCHANGED <<target, stubs, activeRestores, flag, invocations>>

\* m.calledArgs(): the caller receives the array slice() made
CalledArgs(s) ==
    /\ lastCall' = [Did("calledArgs", s) EXCEPT
                       !.outcome = [how |-> "list", val |-> slice(stubs[s].callArgs)]]
    /\ UNCHANGED <<target, stubs, activeRestores, flag, invocations>>

\* the caller holds the array calledArgs() of stub s has just returned
HoldsList(s) == lastCall.op \in {"calledArgs", "mutate"} /\ lastCall.stub = s

\* list.pop() on the returned array
MutateList(s) ==
    /\ HoldsList(s)
    /\ lastCall.outcome.val # <<>>
    /\ lastCall' = [lastCall EXCEPT
                       !.op = "mutate",
                       !.outcome.val = SubSeq(@, 1, Len(@) - 1)]
    /\ UNCHANGED <<target, stubs, activeRestores, flag, invocations>>

\* list[i].push(x) on an element of the returned array: the element is the
\* args array mocker pushed, so the push is on the stored array
MutateArgs(s, i, x) ==
    /\ HoldsList(s)
    /\ i \in 1..Len(lastCall.outcome.val)
    /\ Len(stubs[s].callArgs[lastCall.outcome.val[i]]) < MaxArgLen
    /\ stubs' = [stubs EXCEPT ![s].callArgs[lastCall.outcome.val[i]] = Append(@, x)]
    /\ lastCall' = [lastCall EXCEPT !.op = "mutate"]
    /\ UNCHANGED <<target, activeRestores, flag, invocations>>

\* the caller changes the variable the predicate closes over
SetFlag ==
    /\ flag' = ~flag
    /\ lastCall' = NoCall
    /\ UNCHANGED <<target, stubs, activeRestores, invocations>>

----------------------------------------------------------------------------
(* Lifecycle: several stubs on two target methods, created and restored *)

Next ==
    \/ \E t \in Targets : Mock(t)
    \/ \E s \in StubIds : Returns(s, "A")
    \/ \E s \in StubIds : Reset(s)
    \/ \E s \in StubIds : Restore(s)
    \/ RestoreAll
    \/ \E t \in Targets : Invoke(t, <<>>, MaxLifeCalls)

Spec == Init /\ [][Next]_vars

----------------------------------------------------------------------------
(* Rule resolution: one stub, every kind of rule, invoked without arguments *)

\* the value a terminal call is given here: one per slot, as in
\* onCall(1) -> A, once() -> B, times(2) -> C, fallback -> D
SlotValue(st) ==
    CASE st.pendingMode.type = "onCall" -> "A"
      [] st.pendingMode.type = "once" -> "B"
      [] st.pendingMode.type = "times" -> "C"
      [] st.pendingMode.type = "until" -> "U"
      [] OTHER -> "D"

NextPrec ==
    \/ \E s \in StubIds : Once(s)
    \/ \E s \in StubIds, n \in 1..MaxTimes : Times(s, n)
    \/ \E s \in StubIds, n \in 1..MaxIndex : OnCall(s, n)
    \/ \E s \in StubIds : Until(s, "flag", NullNum)
    \/ \E s \in StubIds : Returns(s, SlotValue(stubs[s]))
    \/ \E s \in StubIds : WithArgsReturns(s, <<>>, "W", MaxRules)
    \/ \E s \in StubIds : Reset(s)
    \/ Invoke("a.fn", <<>>, MaxCalls)
    \/ SetFlag

SpecPrec == InitOne /\ [][NextPrec]_vars

----------------------------------------------------------------------------
(* Default only: one stub on which nothing but returns(v) is configured *)

NextDefault ==
    \/ \E s \in StubIds, v \in Values : Returns(s, v)
    \/ \E s \in StubIds : Restore(s)
    \/ \E a \in ArgLists : Invoke("a.fn", a, MaxLifeCalls)

SpecDefault == InitOne /\ [][NextDefault]_vars

----------------------------------------------------------------------------
(* Arguments: one stub with withArgs rules, called with argument lists *)

\* the value a withArgs rule is given here: X for the first rule, Y after it
RuleValue(st) == IF Len(st.argRules) = 0 THEN "X" ELSE "Y"

NextArgs ==
    \/ \E s \in StubIds, a \in ArgLists :
          WithArgsReturns(s, a, RuleValue(stubs[s]), MaxArgRules)
    \/ \E s \in StubIds : Once(s)
    \/ \E s \in StubIds : Returns(s, "Z")
    \/ \E a \in ArgLists : Invoke("a.fn", a, MaxFewCalls)

SpecArgs == InitOne /\ [][NextArgs]_vars

----------------------------------------------------------------------------
(* Until: one stub with an until rule whose predicate reads flag *)

NextUntil ==
    \/ \E s \in StubIds, p \in Predicates, m \in {NullNum} \cup 1..MaxCap :
          Until(s, p, m)
    \/ \E s \in StubIds : Once(s)
    \/ \E s \in StubIds : Returns(s, SlotValue(stubs[s]))
    \/ \E s \in StubIds : WithArgsReturns(s, <<>>, "W", MaxRules)
    \/ \E s \in StubIds : Reset(s)
    \/ Invoke("a.fn", <<>>, MaxFewCalls)
    \/ SetFlag

SpecUntil == InitOne /\ [][NextUntil]_vars

----------------------------------------------------------------------------
(* Reset: one stub with every kind of rule, reset and restored *)

NextReset ==
    \/ \E s \in StubIds : Once(s)
    \/ \E s \in StubIds, n \in 1..MaxTimes : Times(s, n)
    \/ \E s \in StubIds, n \in 1..MaxIndex : OnCall(s, n)
    \/ \E s \in StubIds, m \in {NullNum} \cup 1..MaxCap : Until(s, "always", m)
    \/ \E s \in StubIds : Returns(s, SlotValue(stubs[s]))
    \/ \E s \in StubIds : WithArgsReturns(s, <<>>, "W", MaxRules)
    \/ \E s \in StubIds : Reset(s)
    \/ \E s \in StubIds : Restore(s)
    \/ Invoke("a.fn", <<>>, MaxLifeCalls)

SpecReset == InitOne /\ [][NextReset]_vars

----------------------------------------------------------------------------
(* Call log: one stub whose log is read, and the returned array mutated *)

NextLog ==
    \/ \E s \in StubIds : Returns(s, "A")
    \/ \E a \in ArgLists : Invoke("a.fn", a, MaxFewCalls)
    \/ \E s \in StubIds : Reset(s)
    \/ \E s \in StubIds : CalledArgs(s)
    \/ \E s \in StubIds : MutateList(s)
    \/ \E s \in StubIds, i \in 1..MaxFewCalls : MutateArgs(s, i, 9)

SpecLog == InitOne /\ [][NextLog]_vars

----------------------------------------------------------------------------
(* Outcomes: one stub on a synchronous or a promise-returning method, with
   returning, throwing and resolving rules and a capped until rule *)

NextOutcome ==
    \/ \E s \in StubIds : Once(s)
    \/ \E s \in StubIds : Until(s, "always", 1)
    \/ \E s \in StubIds : Returns(s, SlotValue(stubs[s]))
    \/ \E s \in StubIds, e \in Errors : Throws(s, e)
    \/ \E s \in StubIds : Resolves(s, "A")
    \/ \E s \in StubIds : Reset(s)
    \/ \E t \in Targets : Invoke(t, <<>>, MaxFewCalls)

SpecOutcome == InitEither /\ [][NextOutcome]_vars

----------------------------------------------------------------------------
(* Creation: mock() on a method and on a member that is no function *)

NextCreate ==
    \/ \E t \in Targets : Mock(t)
    \/ \E s \in StubIds : Returns(s, "A")
    \/ \E s \in StubIds : Restore(s)
    \/ RestoreAll
    \/ Invoke("a.fn", <<>>, MaxLifeCalls)

SpecCreate == InitMembers /\ [][NextCreate]_vars

----------------------------------------------------------------------------
(* Configuration: one stub whose times(n) and onCall(n) are given any number *)

NextConfig ==
    \/ \E s \in StubIds : Once(s)
    \/ \E s \in StubIds, c \in Counts : TimesCall(s, c)
    \/ \E s \in StubIds, c \in Counts : OnCallCall(s, c)
    \/ \E s \in StubIds : Until(s, "always", NullNum)
    \/ \E s \in StubIds : Returns(s, SlotValue(stubs[s]))
    \/ \E s \in StubIds : Reset(s)
    \/ Invoke("a.fn", <<>>, MaxFewCalls)

SpecConfig == InitOne /\ [][NextConfig]_vars

----------------------------------------------------------------------------
(* onCall: one stub with onCall rules, a once rule and a default, called and
   reset; the caller goes on as long as it has a step to make *)

NextOnCall ==
    \/ \E s \in StubIds, n \in 1..MaxIndex : OnCall(s, n)
    \/ \E s \in StubIds : Once(s)
    \/ \E s \in StubIds : Returns(s, SlotValue(stubs[s]))
    \/ \E s \in StubIds : Reset(s)
    \/ Invoke("a.fn", <<>>, MaxFewCalls)

SpecOnCall == InitOne /\ [][NextOnCall]_vars /\ WF_vars(NextOnCall)

----------------------------------------------------------------------------
(* Terminal calls: one stub that is configured and not called, with every
   pending mode and returns / throws / resolves *)

NextTerminal ==
    \/ \E s \in StubIds : Once(s)
    \/ \E s \in StubIds, n \in 1..MaxTimes : Times(s, n)
    \/ \E s \in StubIds, n \in 1..MaxIndex : OnCall(s, n)
    \/ \E s \in StubIds : Until(s, "always", NullNum)
    \/ \E s \in StubIds : Returns(s, "A")
    \/ \E s \in StubIds, e \in Errors : Throws(s, e)
    \/ \E s \in StubIds : Resolves(s, "A")

SpecTerminal == InitOne /\ [][NextTerminal]_vars

----------------------------------------------------------------------------
(* withArgs chains: one stub that is configured and not called, with every
   pending mode, withArgs(1).returns / throws / resolves and returns *)

NextWithArgs ==
    \/ \E s \in StubIds : Once(s)
    \/ \E s \in StubIds, n \in 1..MaxTimes : Times(s, n)
    \/ \E s \in StubIds, n \in 1..MaxIndex : OnCall(s, n)
    \/ \E s \in StubIds : Until(s, "always", NullNum)
    \/ \E s \in StubIds : WithArgsReturns(s, <<1>>, "X", MaxArgRules)
    \/ \E s \in StubIds, e \in Errors : WithArgsThrows(s, <<1>>, e, MaxArgRules)
    \/ \E s \in StubIds : WithArgsResolves(s, <<1>>, "X", MaxArgRules)
    \/ \E s \in StubIds : Returns(s, SlotValue(stubs[s]))

SpecWithArgs == InitOne /\ [][NextWithArgs]_vars

----------------------------------------------------------------------------
(* Stacking: stubs created one over the other on the same method, restored
   one by one *)

NextStack ==
    \/ Mock("a.fn")
    \/ \E s \in StubIds : Returns(s, "A")
    \/ \E s \in StubIds : Once(s)
    \/ \E s \in StubIds : Restore(s)
    \/ Invoke("a.fn", <<>>, MaxLifeCalls)

SpecStack == Init /\ [][NextStack]_vars

----------------------------------------------------------------------------
(* Properties *)

\* the step is an invocation that entered the mocker of stub s
CallStep(s) == lastCall'.op = "invoke" /\ lastCall'.stub = s

\* the arguments of the invocation a CallStep(s) made
CallStepArgs(s) == stubs'[s].callArgs[Len(stubs'[s].callArgs)]

Returned(v) == [how |-> "return", val |-> v]

PredicateTrue(u) == u.predicate = "always" \/ flag

Matches(rule, args) == rule.args = args

\* the levels of the precedence order that are eligible for the next call
OnCallEligible(st) ==
    st.callCount + 1 \in DOMAIN st.onCallMap /\ st.onCallMap[st.callCount + 1] # Null
OnceEligible(st) == st.onceImplementation # Null
TimesEligible(st) == st.timesImplementation # Null /\ st.timesRemaining > 0
UntilEligible(st) == st.untilState # Null /\ PredicateTrue(st.untilState)
WithArgsEligible(st, args) == \E i \in 1..Len(st.argRules) : Matches(st.argRules[i], args)

FirstEligible(st, args) ==
    CASE OnCallEligible(st) -> "onCall"
      [] ~OnCallEligible(st) /\ OnceEligible(st) -> "once"
      [] ~OnCallEligible(st) /\ ~OnceEligible(st) /\ TimesEligible(st) -> "times"
      [] ~OnCallEligible(st) /\ ~OnceEligible(st) /\ ~TimesEligible(st)
         /\ UntilEligible(st) -> "until"
      [] ~OnCallEligible(st) /\ ~OnceEligible(st) /\ ~TimesEligible(st)
         /\ ~UntilEligible(st) /\ WithArgsEligible(st, args) -> "withArgs"
      [] OTHER -> "default"

\* the rule each level holds for the next call
RuleOf(st, args, level) ==
    CASE level = "onCall" -> st.onCallMap[st.callCount + 1]
      [] level = "once" -> st.onceImplementation
      [] level = "times" -> st.timesImplementation
      [] level = "until" -> st.untilState.impl
      [] level = "withArgs" ->
            LET i == CHOOSE i \in 1..Len(st.argRules) :
                        /\ Matches(st.argRules[i], args)
                        /\ \A j \in 1..(i - 1) : ~Matches(st.argRules[j], args)
            IN  st.argRules[i].impl
      [] OTHER -> st.implementation

\* onCall(1) -> A, once() -> B, times(2) -> C, fallback -> D, after k calls
Scenario(st, k) ==
    /\ st.callCount = k
    /\ st.onCallMap = [EmptyMap EXCEPT ![1] = ReturnsImpl("A")]
    /\ st.onceImplementation = IF k < 2 THEN ReturnsImpl("B") ELSE Null
    /\ st.timesImplementation = ReturnsImpl("C")
    /\ st.timesRemaining = IF k <= 2 THEN 2 ELSE IF k = 3 THEN 1 ELSE 0
    /\ st.implementation = ReturnsImpl("D")
    /\ st.untilState = Null
    /\ st.argRules = <<>>

ScenarioValue(k) ==
    IF k = 1 THEN "A" ELSE IF k = 2 THEN "B" ELSE IF k \in {3, 4} THEN "C" ELSE "D"

\* C1: every invocation of a stub is resolved by the first eligible level of
\* onCall[callCount] > once > times (remaining > 0) > until (predicate true) >
\* first matching withArgs rule > default, and fires that level's rule; with
\* onCall(1) -> A, once() -> B, times(2) -> C and fallback D the successive
\* calls yield A, B, C, C, D, D, ...
C1_Precedence ==
    [][\A s \in StubIds :
         CallStep(s) =>
            LET st == stubs[s]
                level == FirstEligible(st, CallStepArgs(s))
                rule == RuleOf(st, CallStepArgs(s), level)
            IN  /\ lastCall'.source = level
                /\ (level = "until" /\ st.untilState.maxCalls = NullNum /\ rule = Null)
                      => lastCall'.outcome = Undefined
                /\ (level = "until" /\ st.untilState.maxCalls = NullNum /\ rule # Null)
                      => lastCall'.outcome = Fire(rule)
                /\ level # "until" => lastCall'.outcome = Fire(rule)
                /\ \A k \in 0..MaxCalls :
                      Scenario(st, k) =>
                         /\ lastCall'.outcome = Returned(ScenarioValue(k + 1))
                         /\ Scenario(stubs'[s], k + 1)]_vars

\* the scenario of C1 has been played up to its fifth call, which yields D
C1_Witness ==
    /\ Len(stubs) = 1
    /\ Scenario(stubs[1], 5)
    /\ lastCall.op = "invoke"
    /\ lastCall.stub = 1
    /\ lastCall.source = "default"
    /\ lastCall.outcome = Returned("D")

\* the step is reset() on the handle of stub s
ResetStep(s) == lastCall'.op = "reset" /\ lastCall'.stub = s

\* C6: reset() is idempotent: a second reset() right after a reset() leaves the
\* stub state (call count 0, empty log, consumable behaviours cleared) as the
\* first left it, and reset() never changes the target member, so never whether
\* the method is stubbed.
C6_ResetIdempotent ==
    [][\A s \in StubIds :
         ResetStep(s) =>
            /\ reset(stubs'[s]) = stubs'[s]
            /\ called(reset(stubs'[s])) = 0
            /\ calledArgs(reset(stubs'[s])) = <<>>
            /\ target' = target
            /\ \A t \in Targets :
                  (target'[t] = MockerFn(s)) <=> (target[t] = MockerFn(s))]_vars

\* reset() has just run on a stub that is installed and keeps an until rule
C6_Witness ==
    /\ lastCall.op = "reset"
    /\ lastCall.stub = 1
    /\ target["a.fn"] = MockerFn(1)
    /\ stubs[1].untilState # Null
    /\ stubs[1].untilState.impl # Null
    /\ stubs[1].argRules # <<>>

\* C7: after reset(), called() is 0, calledArgs() is empty, and the once rule,
\* the times rule, every onCall entry and the pending mode are gone, so the
\* next invocation is call number 1 and none of those rules resolves it.
C7_ResetClears ==
    [][\A s \in StubIds :
         ResetStep(s) =>
            LET st == stubs'[s]
            IN  /\ called(st) = 0
                /\ calledArgs(st) = <<>>
                /\ st.onceImplementation = Null
                /\ st.timesRemaining = NullNum
                /\ st.timesImplementation = Null
                /\ \A n \in DOMAIN st.onCallMap : st.onCallMap[n] = Null
                /\ st.pendingMode = NoMode
                /\ \A a \in ArgLists :
                      /\ mocker(st, a).st.callCount = 1
                      /\ mocker(st, a).source \in {"until", "withArgs", "default"}]_vars

\* reset() has just run and the stub keeps only its default D
C7_Witness ==
    /\ lastCall.op = "reset"
    /\ lastCall.stub = 1
    /\ invocations[1] = 0
    /\ stubs[1].implementation = ReturnsImpl("D")
    /\ stubs[1].untilState = Null
    /\ stubs[1].argRules = <<>>

\* C8: reset() leaves the captured original, the withArgs rules, the default
\* behaviour, the target member and the restoration registry unchanged.
C8_ResetFrame ==
    [][\A s \in StubIds :
         ResetStep(s) =>
            /\ stubs'[s].original = stubs[s].original
            /\ stubs'[s].tgt = stubs[s].tgt
            /\ stubs'[s].argRules = stubs[s].argRules
            /\ stubs'[s].implementation = stubs[s].implementation
            /\ target' = target
            /\ activeRestores' = activeRestores]_vars

\* reset() has just run on a restored stub that has a withArgs rule and default D
C8_Witness ==
    /\ lastCall.op = "reset"
    /\ lastCall.stub = 1
    /\ stubs[1].argRules # <<>>
    /\ stubs[1].implementation = ReturnsImpl("D")
    /\ target["a.fn"] = Orig("a.fn")
    /\ activeRestores = <<>>

\* C2: on a stub with nothing but a default returns(v) configured, every
\* invocation, whatever its arguments, yields v, and called() is the number of
\* invocations made.
C2_DefaultOnly ==
    [][\A s \in StubIds :
         /\ called(stubs'[s]) = invocations'[s]
         /\ \A v \in Values :
               (CallStep(s) /\ stubs[s].implementation = ReturnsImpl(v))
                  => lastCall'.outcome = Returned(v)]_vars

\* two calls with different arguments were made and the second yielded B
C2_Witness ==
    /\ lastCall.op = "invoke"
    /\ lastCall.stub = 1
    /\ lastCall.outcome = Returned("B")
    /\ stubs[1].callArgs = << <<1, 2>>, <<>> >>
    /\ called(stubs[1]) = 2
    /\ invocations[1] = 2

\* the step is restore() on the handle of stub s
RestoreStep(s) == lastCall'.op = "restore" /\ lastCall'.stub = s

\* the target/method pair an invocation step called
CalledTarget ==
    IF lastCall'.stub = 0 THEN lastCall'.outcome.val ELSE stubs[lastCall'.stub].tgt

\* C3: mock() captures the value the target member holds, no configuration
\* call, invocation or reset changes what was captured, and restore() writes
\* it back, so that the next invocation runs the pre-stub original.
C3_RoundTrip ==
    [][\A s \in StubIds' :
         /\ (lastCall'.op = "mock" /\ lastCall'.stub = s)
               => stubs'[s].original = target[stubs'[s].tgt]
         /\ s \in StubIds
               => /\ stubs'[s].original = stubs[s].original
                  /\ stubs'[s].tgt = stubs[s].tgt
         /\ (s \in StubIds /\ RestoreStep(s))
               => target'[stubs[s].tgt] = stubs[s].original
         /\ (/\ s \in StubIds
             /\ lastCall.op = "restore"
             /\ lastCall.stub = s
             /\ lastCall'.op = "invoke"
             /\ CalledTarget = stubs[s].tgt
             /\ stubs[s].original = Orig(stubs[s].tgt))
               => /\ lastCall'.source = "original"
                  /\ lastCall'.outcome.val = stubs[s].tgt
                  /\ stubs' = stubs]_vars

\* stub 1 was configured, called and reset, a second stub was created over
\* it, and restore() of stub 1 has put the original back
C3_Witness ==
    /\ lastCall.op = "restore"
    /\ lastCall.stub = 1
    /\ Len(stubs) = 2
    /\ stubs[2].tgt = stubs[1].tgt
    /\ stubs[1].implementation = ReturnsImpl("A")
    /\ stubs[1].callCount > 0
    /\ target[stubs[1].tgt] = Orig(stubs[1].tgt)

\* C4: right after restoreAll() no target member is the interception function
\* of a stub.
C4_RestoreAllLeavesNoStub ==
    lastCall.op = "restoreAll" => \A t \in Targets : target[t].k # "mocker"

\* the stubs registered in the registry
Active == {activeRestores[i] : i \in 1..Len(activeRestores)}

\* C5: when the active stubs are on pairwise distinct target methods and each
\* intercepts its method, restoreAll() leaves every one of these methods as
\* the value its stub captured (the original of the object when the stub was
\* created over it) and empties the registry.
C5_RestoreAllDistinct ==
    [][(/\ lastCall'.op = "restoreAll"
        /\ \A s1, s2 \in Active : s1 # s2 => stubs[s1].tgt # stubs[s2].tgt
        /\ \A s \in Active : target[stubs[s].tgt] = MockerFn(s))
          => /\ \A s \in Active : target'[stubs[s].tgt] = stubs[s].original
             /\ \A s \in Active :
                   stubs[s].original.k = "orig"
                      => target'[stubs[s].tgt] = Orig(stubs[s].tgt)
             /\ activeRestores' = <<>>]_vars

\* two stubs on the two objects were both called, and restoreAll() has put
\* both originals back
C5_Witness ==
    /\ lastCall.op = "restoreAll"
    /\ Len(stubs) = 2
    /\ stubs[1].tgt # stubs[2].tgt
    /\ stubs[1].callCount > 0
    /\ stubs[2].callCount > 0
    /\ \A t \in Targets : target[t] = Orig(t)
    /\ activeRestores = <<>>

\* no onCall, once or times rule is eligible for the next call
NoCountedRule(st) == ~OnCallEligible(st) /\ ~OnceEligible(st) /\ ~TimesEligible(st)

\* withArgs(1, 2) -> X, withArgs(2, 2) -> Y, fallback Z
ArgsScenario(st) ==
    /\ st.argRules = << [args |-> <<1, 2>>, impl |-> ReturnsImpl("X")],
                        [args |-> <<2, 2>>, impl |-> ReturnsImpl("Y")] >>
    /\ st.implementation = ReturnsImpl("Z")

\* C9: when no rule of a higher level is eligible, an invocation is resolved
\* by the first withArgs rule whose expected arguments are the call's
\* arguments (same length, same value at every position) and by the default
\* when there is none, so a rule for a list of another length never applies;
\* with (1,2) -> X, (2,2) -> Y and fallback Z, (1,2) yields X, (2,2) yields Y
\* and every other list yields Z.
C9_WithArgsExact ==
    [][\A s \in StubIds :
         (CallStep(s) /\ NoCountedRule(stubs[s]) /\ ~UntilEligible(stubs[s])) =>
            LET st == stubs[s]
                a == CallStepArgs(s)
                same == {i \in 1..Len(st.argRules) : st.argRules[i].args = a}
            IN  /\ same = {} =>
                      /\ lastCall'.source = "default"
                      /\ lastCall'.outcome = Fire(st.implementation)
                /\ \A i \in same :
                      (\A j \in same : i <= j) =>
                         /\ lastCall'.source = "withArgs"
                         /\ lastCall'.outcome = Fire(st.argRules[i].impl)
                /\ (\A i \in 1..Len(st.argRules) : Len(st.argRules[i].args) # Len(a))
                      => lastCall'.source = "default"
                /\ ArgsScenario(st) =>
                      lastCall'.outcome =
                         Returned(IF a = <<1, 2>> THEN "X"
                                  ELSE IF a = <<2, 2>> THEN "Y" ELSE "Z")]_vars

\* with the rules of the scenario, (1,2) and (2,2) were called and then a
\* list of another length, which yielded Z
C9_Witness ==
    /\ ArgsScenario(stubs[1])
    /\ stubs[1].callArgs = << <<1, 2>>, <<2, 2>>, <<1>> >>
    /\ lastCall.op = "invoke"
    /\ lastCall.stub = 1
    /\ lastCall.source = "default"
    /\ lastCall.outcome = Returned("Z")

\* C10: with an until rule without cap and no onCall, once or times rule
\* eligible, an invocation applies the until rule if and only if the
\* predicate is true at that invocation, and otherwise is resolved by the
\* withArgs rules and the default, the until state left as it was.
C10_UntilWhilePredicate ==
    [][\A s \in StubIds :
         (/\ CallStep(s)
          /\ stubs[s].untilState # Null
          /\ stubs[s].untilState.maxCalls = NullNum
          /\ NoCountedRule(stubs[s])) =>
            LET st == stubs[s]
                u == st.untilState
                a == CallStepArgs(s)
            IN  /\ (lastCall'.source = "until") <=> PredicateTrue(u)
                /\ PredicateTrue(u) =>
                      /\ lastCall'.outcome =
                            IF u.impl = Null THEN Undefined ELSE Fire(u.impl)
                      /\ stubs'[s].untilState = [u EXCEPT !.calls = @ + 1]
                /\ ~PredicateTrue(u) =>
                      /\ lastCall'.source =
                            IF WithArgsEligible(st, a) THEN "withArgs" ELSE "default"
                      /\ lastCall'.outcome = Fire(RuleOf(st, a, lastCall'.source))
                      /\ stubs'[s].untilState = u]_vars

\* the predicate was true for two calls, which applied the until rule U, and
\* false at the third, which yielded the fallback D
C10_Witness ==
    /\ stubs[1].untilState # Null
    /\ stubs[1].untilState.predicate = "flag"
    /\ stubs[1].untilState.maxCalls = NullNum
    /\ stubs[1].untilState.impl = ReturnsImpl("U")
    /\ stubs[1].untilState.calls = 2
    /\ stubs[1].callCount = 3
    /\ ~flag
    /\ lastCall.op = "invoke"
    /\ lastCall.stub = 1
    /\ lastCall.source = "default"
    /\ lastCall.outcome = Returned("D")

UntilExceeded == [how |-> "throw", val |-> "UntilExceeded"]

\* C11: an invocation resolved by an until rule with cap m applies the rule's
\* configured behaviour while fewer than m invocations were resolved by it,
\* and raises UntilExceeded from then on; the raising invocation is counted
\* by called() and recorded in calledArgs() like any other (with m = 2 and an
\* always-true predicate the third call raises and called() is 3).
C11_UntilCap ==
    [][\A s \in StubIds :
         (/\ CallStep(s)
          /\ FirstEligible(stubs[s], CallStepArgs(s)) = "until"
          /\ stubs[s].untilState.maxCalls # NullNum) =>
            LET st == stubs[s]
                u == st.untilState
            IN  /\ u.calls < u.maxCalls =>
                      lastCall'.outcome =
                         IF u.impl = Null THEN Undefined ELSE Fire(u.impl)
                /\ u.calls >= u.maxCalls => lastCall'.outcome = UntilExceeded
                /\ called(stubs'[s]) = called(st) + 1
                /\ calledArgs(stubs'[s]) = Append(calledArgs(st), CallStepArgs(s))
                /\ (/\ u.predicate = "always"
                    /\ u.maxCalls = 2
                    /\ u.impl = ReturnsImpl("U")
                    /\ u.calls = st.callCount
                    /\ st.onceImplementation = Null) =>
                      /\ st.callCount < 2 => lastCall'.outcome = Returned("U")
                      /\ st.callCount = 2 =>
                            /\ lastCall'.outcome = UntilExceeded
                            /\ called(stubs'[s]) = 3]_vars

\* until(always, 2).returns(U): two calls yielded U, the third has raised
\* UntilExceeded and called() is 3
C11_Witness ==
    /\ stubs[1].untilState # Null
    /\ stubs[1].untilState.predicate = "always"
    /\ stubs[1].untilState.maxCalls = 2
    /\ stubs[1].untilState.impl = ReturnsImpl("U")
    /\ lastCall.op = "invoke"
    /\ lastCall.stub = 1
    /\ lastCall.source = "until"
    /\ lastCall.outcome = UntilExceeded
    /\ called(stubs[1]) = 3
    /\ Len(calledArgs(stubs[1])) = 3

\* the step mutates the array calledArgs() of stub s returned
MutateStep(s) == lastCall'.op = "mutate" /\ lastCall'.stub = s

\* C12: calledArgs() returns the argument lists of the invocations since
\* creation or the last reset, in call order, and neither a mutation of the
\* returned list nor a mutation of an argument list in it changes what a
\* later calledArgs() returns.
C12_CalledArgsSnapshot ==
    [][\A s \in StubIds :
         /\ (lastCall'.op = "calledArgs" /\ lastCall'.stub = s) =>
               /\ read(lastCall'.outcome.val, stubs'[s].callArgs) = stubs[s].callArgs
               /\ Len(lastCall'.outcome.val) = invocations[s]
         /\ CallStep(s) =>
               calledArgs(stubs'[s]) = Append(calledArgs(stubs[s]), CallStepArgs(s))
         /\ ResetStep(s) => calledArgs(stubs'[s]) = <<>>
         /\ MutateStep(s) => calledArgs(stubs'[s]) = calledArgs(stubs[s])]_vars

\* C13: every invocation advances the call counter and the argument log by
\* one, whatever its outcome (a value, a configured throw, UntilExceeded), so
\* the log length equals callCount and called() equals the number of
\* invocations since creation or the last reset, in every state.
C13_CountAndLog ==
    [][\A s \in StubIds :
         /\ Len(stubs[s].callArgs) = stubs[s].callCount
         /\ Len(stubs'[s].callArgs) = stubs'[s].callCount
         /\ called(stubs[s]) = invocations[s]
         /\ called(stubs'[s]) = invocations'[s]
         /\ CallStep(s) =>
               /\ stubs'[s].callCount = stubs[s].callCount + 1
               /\ Len(stubs'[s].callArgs) = Len(stubs[s].callArgs) + 1
               /\ SubSeq(stubs'[s].callArgs, 1, Len(stubs[s].callArgs))
                     = stubs[s].callArgs
         /\ ~CallStep(s) /\ ~ResetStep(s) =>
               /\ stubs'[s].callCount = stubs[s].callCount
               /\ stubs'[s].callArgs = stubs[s].callArgs]_vars

\* a call threw the error configured on the until rule and the next one has
\* raised UntilExceeded: both are counted and logged
C13_Witness ==
    /\ lastCall.op = "invoke"
    /\ lastCall.stub = 1
    /\ lastCall.outcome = UntilExceeded
    /\ stubs[1].untilState # Null
    /\ stubs[1].untilState.impl = ThrowsImpl("E")
    /\ stubs[1].untilState.calls = 2
    /\ stubs[1].callCount = 2
    /\ Len(stubs[1].callArgs) = 2
    /\ invocations[1] = 2

\* C14: mock(target, key) on a member that is not a function throws, and
\* leaves the target member, the stubs and the restoration registry as
\* they were.
C14_MockNonFunction ==
    [][\A t \in Targets :
         (target[t].k = "data" /\ Mock(t)) =>
            /\ lastCall'.op = "mock"
            /\ lastCall'.outcome.how = "throw"
            /\ target' = target
            /\ target'[t] = Data(t)
            /\ activeRestores' = activeRestores
            /\ stubs' = stubs]_vars

\* with a stub installed on a.fn and registered, mock() on the member b.fn,
\* which is no function, has thrown
C14_Witness ==
    /\ lastCall = Raised("mock", 0, "NotAFunction")
    /\ target["b.fn"] = Data("b.fn")
    /\ target["a.fn"] = MockerFn(1)
    /\ activeRestores = <<1>>
    /\ Len(stubs) = 1

\* the number is a positive integer
PositiveInteger(c) == c.half = 0 /\ c.whole >= 1

\* every rule a terminal call can be given
Impls ==
    {ReturnsImpl(v) : v \in Values} \cup {ThrowsImpl(e) : e \in Errors}
       \cup {ResolvesImpl(v) : v \in Values}

\* C15: times(n) and onCall(n) with n zero, negative or not an integer throw
\* at the call and change nothing: the pending mode and every behaviour slot
\* are as before, so a terminal call that follows does what it would have
\* done without the invalid call.
C15_InvalidCount ==
    [][\A s \in StubIds, c \in Counts :
         (~PositiveInteger(c) /\ (TimesCall(s, c) \/ OnCallCall(s, c))) =>
            /\ lastCall' = Raised("configure", s, "InvalidArgument")
            /\ stubs'[s].pendingMode = stubs[s].pendingMode
            /\ stubs' = stubs
            /\ target' = target
            /\ \A impl \in Impls :
                  setBehavior(stubs'[s], impl) = setBehavior(stubs[s], impl)]_vars

\* with a times rule and an onCall rule configured and once() pending, an
\* invalid times(n) or onCall(n) has thrown and once() is still pending
C15_Witness ==
    /\ lastCall = Raised("configure", 1, "InvalidArgument")
    /\ stubs[1].pendingMode = OnceMode
    /\ stubs[1].timesImplementation = ReturnsImpl("C")
    /\ stubs[1].onCallMap[1] = ReturnsImpl("A")

\* the invocation of the step ended in an error, thrown or delivered as a
\* rejected promise
Failed == lastCall'.outcome.how \in {"throw", "rejected"}

\* C16: the error of a throws(e) rule, and UntilExceeded, reach the caller
\* as a synchronous throw when the stubbed method is synchronous and as a
\* rejected promise when it is promise-returning.
C16_ErrorChannel ==
    [][\A s \in StubIds :
         (CallStep(s) /\ Failed) =>
            lastCall'.outcome.how =
               IF IsAsync(stubs[s].tgt) THEN "rejected" ELSE "throw"]_vars

\* the step is a terminal call made while once() was pending on stub s
ArmsOnce(s) ==
    /\ lastCall'.op = "configure"
    /\ lastCall'.stub = s
    /\ stubs[s].pendingMode = OnceMode
    /\ stubs'[s].pendingMode = NoMode

\* C17: a once rule fires on at most one invocation per arming: only an
\* armed rule fires, the invocation it resolves clears it, and it becomes
\* armed again by nothing but a terminal call made while once() is pending.
C17_OnceAtMostOnce ==
    [][\A s \in StubIds :
         /\ (CallStep(s) /\ lastCall'.source = "once") =>
               /\ stubs[s].onceImplementation # Null
               /\ lastCall'.outcome = Fire(stubs[s].onceImplementation)
               /\ stubs'[s].onceImplementation = Null
         /\ (CallStep(s) /\ lastCall.op = "invoke" /\ lastCall.stub = s
                /\ lastCall.source = "once") => lastCall'.source # "once"
         /\ (stubs[s].onceImplementation = Null
                /\ stubs'[s].onceImplementation # Null) => ArmsOnce(s)]_vars

\* the once rule B has fired on the second call and is cleared
C17_Witness ==
    /\ lastCall.op = "invoke"
    /\ lastCall.stub = 1
    /\ lastCall.source = "once"
    /\ lastCall.outcome = Returned("B")
    /\ stubs[1].onceImplementation = Null
    /\ stubs[1].callCount = 2
    /\ stubs[1].implementation = ReturnsImpl("D")

ArmsTimes(s) ==
    /\ lastCall'.op = "configure"
    /\ lastCall'.stub = s
    /\ stubs[s].pendingMode.type = "times"
    /\ stubs'[s].pendingMode = NoMode

\* C19: the terminal call after times(n) sets the remaining count to n; an
\* invocation fires the times rule exactly when no onCall or once rule
\* takes it and the remaining count is positive, and each firing lowers the
\* count by one, so the rule fires on the next n such invocations and on
\* none after them; the count never goes below zero, and the exhausted
\* rule stays in place until reset.
C19_TimesExactlyN ==
    [][\A s \in StubIds :
         LET st == stubs[s]
             st2 == stubs'[s]
         IN  /\ ArmsTimes(s) =>
                   /\ st2.timesRemaining = st.pendingMode.n
                   /\ st2.timesImplementation # Null
             /\ CallStep(s) =>
                   /\ (lastCall'.source = "times")
                         <=> (/\ ~OnCallEligible(st)
                              /\ ~OnceEligible(st)
                              /\ st.timesImplementation # Null
                              /\ st.timesRemaining > 0)
                   /\ lastCall'.source = "times" =>
                         /\ lastCall'.outcome = Fire(st.timesImplementation)
                         /\ st2.timesRemaining = st.timesRemaining - 1
                         /\ st2.timesRemaining >= 0
                   /\ lastCall'.source # "times" =>
                         st2.timesRemaining = st.timesRemaining
                   /\ st2.timesImplementation = st.timesImplementation
             /\ st.timesImplementation # Null => st.timesRemaining >= 0
             /\ (st.timesImplementation # Null /\ st.timesRemaining = 0
                    /\ ~ResetStep(s) /\ ~ArmsTimes(s)) =>
                   /\ st2.timesImplementation = st.timesImplementation
                   /\ st2.timesRemaining = 0
             /\ (st.timesImplementation # Null /\ ResetStep(s)) =>
                   /\ st2.timesImplementation = Null
                   /\ st2.timesRemaining = NullNum]_vars

\* times(n) -> C with fallback D and no other rule: the rule is exhausted,
\* still in place, and the third call has yielded D
C19_Witness ==
    /\ stubs[1].timesImplementation = ReturnsImpl("C")
    /\ stubs[1].timesRemaining = 0
    /\ stubs[1].implementation = ReturnsImpl("D")
    /\ stubs[1].onCallMap = EmptyMap
    /\ stubs[1].onceImplementation = Null
    /\ stubs[1].untilState = Null
    /\ stubs[1].argRules = <<>>
    /\ stubs[1].callCount = 3
    /\ lastCall.op = "invoke"
    /\ lastCall.stub = 1
    /\ lastCall.source = "default"
    /\ lastCall.outcome = Returned("D")

\* the onCall rule of index n of stub 1 has just fired
JustFired(n) ==
    /\ lastCall.op = "invoke"
    /\ lastCall.stub = 1
    /\ lastCall.source = "onCall"
    /\ stubs[1].callCount = n

\* C20: an onCall(n) rule fires on exactly the invocations whose call
\* number is n, firing leaves the entry in place until reset, and an index
\* that has fired never fires again in the lifetime of the stub.
C20_OnCallOncePerLifetime ==
    \A n \in 1..MaxIndex : [](JustFired(n) => [](~JustFired(n) => []~JustFired(n)))

\* C20, amended: an invocation fires an onCall rule exactly when the map
\* holds an entry for its call number; firing leaves the entry in place,
\* where it stays until reset removes it; between two resets callCount
\* grows by one per invocation and never decreases, so an entry fires at
\* most once, and its index fires again only after a reset and a new
\* onCall(n) configuration.
C20_OnCallOncePerEntry ==
    [][\A s \in StubIds :
         LET st == stubs[s]
             st2 == stubs'[s]
         IN  /\ CallStep(s) =>
                   /\ (lastCall'.source = "onCall")
                         <=> MapHas(st.onCallMap, st2.callCount)
                   /\ lastCall'.source = "onCall" =>
                         lastCall'.outcome = Fire(st.onCallMap[st2.callCount])
                   /\ st2.onCallMap = st.onCallMap
                   /\ st2.callCount = st.callCount + 1
             /\ ~ResetStep(s) =>
                   /\ st2.callCount >= st.callCount
                   /\ \A n \in 1..MaxIndex :
                         MapHas(st.onCallMap, n) => MapHas(st2.onCallMap, n)
             /\ ResetStep(s) =>
                   /\ st2.callCount = 0
                   /\ \A n \in 1..MaxIndex : ~MapHas(st2.onCallMap, n)]_vars

\* onCall(1) -> A with fallback D: the entry fired on call 1, is still in
\* the map, and the second call has yielded D
C20_Witness ==
    /\ stubs[1].onCallMap[1] = ReturnsImpl("A")
    /\ stubs[1].implementation = ReturnsImpl("D")
    /\ stubs[1].callCount = 2
    /\ invocations[1] = 2
    /\ lastCall.op = "invoke"
    /\ lastCall.stub = 1
    /\ lastCall.source = "default"
    /\ lastCall.outcome = Returned("D")

\* the step is the terminal call on stub s that installs impl
TerminalStep(s, impl) ==
    \/ impl.kind = "returns" /\ Returns(s, impl.val)
    \/ impl.kind = "throws" /\ Throws(s, impl.val)
    \/ impl.kind = "resolves" /\ Resolves(s, impl.val)

\* C21: a terminal call installs its rule into the slot the pending mode
\* names (the onCall entry n, the once slot, the times slot with the
\* recorded count, the current until rule) or into the default when no mode
\* is pending, leaves every other slot as it was, and leaves the pending
\* mode at none.
C21_TerminalSlot ==
    [][\A s \in StubIds, impl \in Impls :
         TerminalStep(s, impl) =>
            LET st == stubs[s]
                st2 == stubs'[s]
                mode == st.pendingMode
            IN  /\ st2.pendingMode = NoMode
                /\ \A n \in 1..MaxIndex :
                      st2.onCallMap[n] =
                         IF mode = OnCallMode(n) THEN impl ELSE st.onCallMap[n]
                /\ st2.onceImplementation =
                      IF mode = OnceMode THEN impl ELSE st.onceImplementation
                /\ st2.timesImplementation =
                      IF mode.type = "times" THEN impl ELSE st.timesImplementation
                /\ st2.timesRemaining =
                      IF mode.type = "times" THEN mode.n ELSE st.timesRemaining
                /\ st2.untilState =
                      IF mode = UntilMode
                      THEN [st.untilState EXCEPT !.impl = impl]
                      ELSE st.untilState
                /\ st2.implementation =
                      IF mode = NoMode THEN impl ELSE st.implementation
                /\ st2.argRules = st.argRules
                /\ st2.callCount = st.callCount
                /\ st2.callArgs = st.callArgs
                /\ st2.original = st.original
                /\ target' = target
                /\ activeRestores' = activeRestores]_vars

\* every slot holds a rule: throws(E) was installed under times(2),
\* resolves(A) under onCall(1) and under until, returns(A) under once and as
\* the default
C21_Witness ==
    /\ lastCall.op = "configure"
    /\ stubs[1].pendingMode = NoMode
    /\ stubs[1].onCallMap[1] = ResolvesImpl("A")
    /\ stubs[1].onceImplementation = ReturnsImpl("A")
    /\ stubs[1].timesImplementation = ThrowsImpl("E")
    /\ stubs[1].timesRemaining = 2
    /\ stubs[1].untilState # Null
    /\ stubs[1].untilState.impl = ResolvesImpl("A")
    /\ stubs[1].implementation = ReturnsImpl("A")

\* the step is withArgs(...a) followed by the terminal call that gives impl
WithArgsStep(s, a, impl) ==
    \/ impl.kind = "returns" /\ WithArgsReturns(s, a, impl.val, MaxArgRules)
    \/ impl.kind = "throws" /\ WithArgsThrows(s, a, impl.val, MaxArgRules)
    \/ impl.kind = "resolves" /\ WithArgsResolves(s, a, impl.val, MaxArgRules)

\* every rule a withArgs chain is given here
ArgImpls == {ReturnsImpl("X"), ResolvesImpl("X")} \cup {ThrowsImpl(e) : e \in Errors}

\* C22: withArgs(...).returns/throws/resolves appends exactly one entry to
\* the withArgs rules and changes nothing else: the pending mode is as it
\* was, so a main-handle terminal call that follows consumes it and fills
\* the slot it would have filled without the withArgs chain.
C22_WithArgsBypassesMode ==
    [][\A s \in StubIds, a \in ArgLists, impl \in ArgImpls :
         WithArgsStep(s, a, impl) =>
            LET st == stubs[s]
                st2 == stubs'[s]
            IN  /\ Len(st2.argRules) = Len(st.argRules) + 1
                /\ SubSeq(st2.argRules, 1, Len(st.argRules)) = st.argRules
                /\ st2.argRules[Len(st2.argRules)] = [args |-> a, impl |-> impl]
                /\ st2.pendingMode = st.pendingMode
                /\ [st2 EXCEPT !.argRules = st.argRules] = st
                /\ \A next \in Impls :
                      /\ setBehavior(st2, next).pendingMode = NoMode
                      /\ [setBehavior(st2, next) EXCEPT !.argRules = st.argRules]
                            = setBehavior(st, next)]_vars

\* once() was armed, two withArgs chains were made, and once() is still
\* pending
C22_Witness ==
    /\ lastCall.op = "configure"
    /\ stubs[1].pendingMode = OnceMode
    /\ stubs[1].onceImplementation = Null
    /\ stubs[1].argRules = << [args |-> <<1>>, impl |-> ThrowsImpl("E")],
                             [args |-> <<1>>, impl |-> ResolvesImpl("X")] >>

\* the positions of the registry that hold a stub on target/method pair t
ActiveOn(t) == {i \in 1..Len(activeRestores) : stubs[activeRestores[i]].tgt = t}

\* C23: the registry holds exactly the stubs that were created and restored
\* neither by restore() nor by restoreAll(): mock() adds the new stub,
\* restore() removes its own stub, restoreAll() empties the registry after
\* running every restore action it holds, and no other step changes it.
C23_RegistryExact ==
    [][/\ \A i, j \in 1..Len(activeRestores) :
             i # j => activeRestores[i] # activeRestores[j]
       /\ Active \subseteq StubIds
       /\ (lastCall'.op = "mock" /\ lastCall'.stub # 0) =>
             /\ lastCall'.stub = Len(stubs) + 1
             /\ Active' = Active \cup {lastCall'.stub}
       /\ (lastCall'.op = "mock" /\ lastCall'.stub = 0) => Active' = Active
       /\ \A s \in StubIds : RestoreStep(s) => Active' = Active \ {s}
       /\ lastCall'.op = "restoreAll" =>
             /\ Active' = {}
             /\ \A t \in Targets :
                   target'[t] =
                      IF ActiveOn(t) = {} THEN target[t]
                      ELSE LET last == CHOOSE i \in ActiveOn(t) :
                                          \A j \in ActiveOn(t) : j <= i
                           IN  stubs[activeRestores[last]].original
       /\ lastCall'.op \notin {"mock", "restore", "restoreAll"} =>
             activeRestores' = activeRestores]_vars

\* of two stubs created, the first has been restored and the second is the
\* only one left in the registry
C23_Witness ==
    /\ Len(stubs) = 2
    /\ lastCall.op = "restore"
    /\ lastCall.stub = 1
    /\ activeRestores = <<2>>
    /\ target[stubs[2].tgt] = MockerFn(2)

\* the stubs on which restore() has run (no restoreAll() being made)
Restored == StubIds \ Active

\* C24: after restore() the stub intercepts nothing: an invocation of the
\* target method does not enter its interception function, so its call
\* count, its call log and its rules are as they were.
C24_RestoredStubInert ==
    [][\A s \in Restored :
         lastCall'.op = "invoke" =>
            /\ lastCall'.stub # s
            /\ called(stubs'[s]) = called(stubs[s])
            /\ calledArgs(stubs'[s]) = calledArgs(stubs[s])
            /\ stubs'[s] = stubs[s]]_vars

\* C25: restore() on a stub that was already restored, by restore() or by
\* restoreAll(), returns without an error and leaves the registry as it is.
C25_SecondRestoreSafe ==
    [][\A s \in StubIds :
         (RestoreStep(s) /\ s \notin Active) =>
            /\ lastCall'.outcome.how # "throw"
            /\ lastCall' = Did("restore", s)
            /\ activeRestores' = activeRestores
            /\ stubs' = stubs]_vars

\* stub 1 was restored, stub 2 was then created on the same method, and
\* restore() of stub 1 has run once more: stub 2 is still registered
C25_Witness ==
    /\ Len(stubs) = 2
    /\ stubs[2].tgt = stubs[1].tgt
    /\ stubs[2].original = Orig(stubs[2].tgt)
    /\ lastCall = Did("restore", 1)
    /\ activeRestores = <<2>>

\* C26: an invocation fires one rule and uses up that rule only: an onCall
\* entry leaves once and times as they are, once leaves times as it is, and
\* when onCall, once or times fires the until predicate is not called and
\* the until hit counter stays.
C26_OneRuleConsumed ==
    [][\A s \in StubIds :
         CallStep(s) =>
            LET st == stubs[s]
                st2 == stubs'[s]
                src == lastCall'.source
            IN  /\ src \in {"onCall", "once", "times", "until", "withArgs", "default"}
                /\ st2.onCallMap = st.onCallMap
                /\ st2.argRules = st.argRules
                /\ st2.implementation = st.implementation
                /\ st2.timesImplementation = st.timesImplementation
                /\ src # "once" => st2.onceImplementation = st.onceImplementation
                /\ src # "times" => st2.timesRemaining = st.timesRemaining
                /\ src # "until" => st2.untilState = st.untilState
                /\ src \in {"onCall", "once", "times"} => ~lastCall'.evaluated
                /\ src = "once" =>
                      st.onceImplementation # Null /\ st2.onceImplementation = Null
                /\ src = "times" => st2.timesRemaining = st.timesRemaining - 1
                /\ src = "until" =>
                      st2.untilState = [st.untilState EXCEPT !.calls = @ + 1]]_vars

\* an onCall entry has fired on a stub whose once rule is still armed, whose
\* times rule has calls left and whose until predicate is true and was
\* never counted
C26_Witness ==
    /\ Len(stubs) = 1
    /\ lastCall.op = "invoke"
    /\ lastCall.source = "onCall"
    /\ stubs[1].onceImplementation # Null
    /\ stubs[1].timesRemaining = MaxTimes
    /\ stubs[1].untilState # Null
    /\ stubs[1].untilState.calls = 0
    /\ flag

\* C27: reset() zeroes the until hit counter and keeps the predicate, the
\* cap and the behaviour: the invocation after a reset, made while the
\* predicate is true, is resolved by the until rule without UntilExceeded,
\* and a capped until rule raises UntilExceeded only when at least as many
\* invocations as the cap were resolved by it since the reset.
C27_ResetRearmsUntil ==
    [][\A s \in StubIds :
         LET st == stubs[s]
             u == st.untilState
         IN  /\ (ResetStep(s) /\ u # Null) =>
                    stubs'[s].untilState = [u EXCEPT !.calls = 0]
             /\ (ResetStep(s) /\ u = Null) => stubs'[s].untilState = Null
             /\ (/\ CallStep(s)
                 /\ lastCall = Did("reset", s)
                 /\ u # Null
                 /\ PredicateTrue(u)) =>
                    /\ lastCall'.source = "until"
                    /\ lastCall'.outcome # UntilExceeded
                    /\ stubs'[s].untilState.calls = 1
             /\ (/\ CallStep(s)
                 /\ lastCall'.source = "until"
                 /\ u.maxCalls # NullNum) =>
                    /\ u.calls <= invocations[s]
                    /\ lastCall'.outcome = UntilExceeded <=> u.calls >= u.maxCalls]_vars

\* reset() has run on a stub whose until(flag, MaxCap).returns(U) rule had
\* been configured: the counter is 0, the predicate is true, the rule stays
C27_Witness ==
    /\ Len(stubs) = 1
    /\ lastCall = Did("reset", 1)
    /\ stubs[1].untilState # Null
    /\ stubs[1].untilState.predicate = "flag"
    /\ stubs[1].untilState.maxCalls = MaxCap
    /\ stubs[1].untilState.impl = ReturnsImpl("U")
    /\ stubs[1].untilState.calls = 0
    /\ flag

----------------------------------------------------------------------------
(* Rule list: one stub whose withArgs rules may repeat their expected
   arguments, reset and called *)

RuleArgLists == {<<1>>, <<2, 2>>}

\* the value the n-th withArgs rule is given here
RuleNames == <<"R1", "R2", "R3", "R4">>

NextRules ==
    \/ \E s \in StubIds, a \in RuleArgLists :
          WithArgsReturns(s, a, RuleNames[Len(stubs[s].argRules) + 1], MaxArgRules)
    \/ \E s \in StubIds : Once(s)
    \/ \E s \in StubIds : Returns(s, "Z")
    \/ \E s \in StubIds : Reset(s)
    \/ \E s \in StubIds : Restore(s)
    \/ \E a \in RuleArgLists : Invoke("a.fn", a, MaxFewCalls)

SpecRules == InitOne /\ [][NextRules]_vars

\* rules is a prefix of rules2
IsPrefix(rules, rules2) ==
    /\ Len(rules) <= Len(rules2)
    /\ \A i \in 1..Len(rules) : rules2[i] = rules[i]

\* C28: withArgs rules are looked up in insertion order and the first match
\* decides: among rules with the same expected arguments the earliest
\* added gives the outcome of every matching invocation that no onCall,
\* once, times or until rule takes; and no step,
\* reset() included, removes, replaces or reorders a rule.
C28_FirstRuleWins ==
    [][\A s \in StubIds :
         LET rules == stubs[s].argRules
         IN  /\ IsPrefix(rules, stubs'[s].argRules)
             /\ ResetStep(s) => stubs'[s].argRules = rules
             /\ CallStep(s) =>
                   /\ stubs'[s].argRules = rules
                   /\ \A i \in 1..Len(rules) :
                         (/\ NoCountedRule(stubs[s])
                          /\ Matches(rules[i], CallStepArgs(s))
                          /\ \A j \in 1..(i - 1) : ~Matches(rules[j], CallStepArgs(s))) =>
                            /\ lastCall'.source = "withArgs"
                            /\ lastCall'.outcome = Fire(rules[i].impl)]_vars

\* two rules with the same expected arguments and different values: the
\* one matching invocation made has returned the value of the first
C28_Witness ==
    /\ Len(stubs) = 1
    /\ Len(stubs[1].argRules) = 2
    /\ stubs[1].argRules[1].args = stubs[1].argRules[2].args
    /\ stubs[1].argRules[1].impl = ReturnsImpl("R1")
    /\ stubs[1].argRules[2].impl = ReturnsImpl("R2")
    /\ lastCall.op = "invoke"
    /\ lastCall.source = "withArgs"
    /\ lastCall.outcome = Returned("R1")
    /\ calledArgs(stubs[1]) = <<stubs[1].argRules[2].args>>

\* C29: stub 1 and then stub 2 created on the same method, no restore in
\* between: once restore() has run on both, in either order, the member is
\* the original again, so neither stub intercepts.
C29_StackedRestoreOriginal ==
    (/\ Len(stubs) = 2
     /\ stubs[2].tgt = stubs[1].tgt
     /\ stubs[2].original = stubs[1].mockerFn
     /\ Active = {}) =>
        target[stubs[1].tgt] = Orig(stubs[1].tgt)

\* C30: restore() of a stub that was already restored leaves the
\* interception function of another stub, created on the same method
\* since, installed on the target.
C30_RestoreSparesOthers ==
    [][\A a \in StubIds, b \in StubIds :
         (/\ RestoreStep(a)
          /\ a \notin Active
          /\ b # a
          /\ b \in Active
          /\ stubs[b].tgt = stubs[a].tgt
          /\ target[stubs[b].tgt] = stubs[b].mockerFn) =>
            target'[stubs[b].tgt] = stubs[b].mockerFn]_vars

----------------------------------------------------------------------------
(* Superseded modifiers: one stub on which modifier calls follow one another
   before a terminal call, then invoked; no reset *)

NextSupersede ==
    \/ \E s \in StubIds : Once(s)
    \/ \E s \in StubIds, n \in 1..MaxTimes : Times(s, n)
    \/ \E s \in StubIds, n \in 1..MaxIndex : OnCall(s, n)
    \/ \E s \in StubIds, p \in Predicates : Until(s, p, NullNum)
    \/ \E s \in StubIds : Returns(s, SlotValue(stubs[s]))
    \/ Invoke("a.fn", <<>>, MaxFewCalls)
    \/ SetFlag

SpecSupersede == InitOne /\ [][NextSupersede]_vars

\* the step is once(), times(n) or onCall(n) on the handle of stub s
CountedModifierStep(s) ==
    \/ Once(s)
    \/ \E n \in 1..MaxTimes : Times(s, n)
    \/ \E n \in 1..MaxIndex : OnCall(s, n)

\* the behaviour slots of a stub other than the until rule
CountedSlots(st) ==
    <<st.onCallMap, st.onceImplementation, st.timesRemaining,
      st.timesImplementation, st.argRules, st.implementation>>

\* the stub holds an until rule that no terminal call gave a behaviour
BareUntil(st) == st.untilState # Null /\ st.untilState.impl = Null

----------------------------------------------------------------------------
(* Exhaustion: one stub that is configured before its first call (or after a
   reset) and then invoked again and again *)

\* no invocation was made since the stub was created or last reset
Fresh(s) == stubs[s].callCount = 0

NextExhaust ==
    \/ \E s \in StubIds : Fresh(s) /\ Once(s)
    \/ \E s \in StubIds, n \in 1..MaxTimes : Fresh(s) /\ Times(s, n)
    \/ \E s \in StubIds, n \in 1..MaxIndex : Fresh(s) /\ OnCall(s, n)
    \/ \E s \in StubIds : Fresh(s) /\ Until(s, "flag", NullNum)
    \/ \E s \in StubIds : Fresh(s) /\ Returns(s, SlotValue(stubs[s]))
    \/ \E s \in StubIds : Fresh(s) /\ WithArgsReturns(s, <<>>, "W", MaxRules)
    \/ \E s \in StubIds : Reset(s)
    \/ Invoke("a.fn", <<>>, MaxCalls)
    \/ SetFlag

\* the caller keeps invoking the method for as long as the call is possible
SpecExhaust ==
    InitOne /\ [][NextExhaust]_vars /\ WF_vars(Invoke("a.fn", <<>>, MaxCalls))

\* the step is no configuration call and no reset
NoConfigStep == lastCall'.op \notin {"configure", "reset"}

\* no stub has an until rule whose predicate is true
UntilOff == \A s \in StubIds : ~UntilEligible(stubs[s])

\* the once and times rules are used up and callCount is past every
\* configured onCall index
Exhausted(st) ==
    /\ ~OnceEligible(st)
    /\ ~TimesEligible(st)
    /\ \A n \in 1..MaxIndex : MapHas(st.onCallMap, n) => n <= st.callCount

\* C32: when from some point on no configuration or reset call is made and
\* from some point on no until predicate is true, repeated invocation leads
\* to a point from which once and times are used up, callCount is past every
\* onCall index, and every invocation is resolved by a withArgs rule or the
\* default.
C32_EventuallyFallback ==
    (<>[][NoConfigStep]_vars /\ <>[]UntilOff) =>
       /\ <>[](\A s \in StubIds : Exhausted(stubs[s]))
       /\ <>[][\A s \in StubIds :
                 CallStep(s) => lastCall'.source \in {"withArgs", "default"}]_vars

\* onCall(1), once, times(MaxTimes) and a false until predicate: every
\* counted rule was used up and the last call fell to the default
C32_Witness ==
    /\ Len(stubs) = 1
    /\ MapHas(stubs[1].onCallMap, 1)
    /\ stubs[1].onceImplementation = Null
    /\ stubs[1].timesImplementation # Null
    /\ stubs[1].timesRemaining = 0
    /\ stubs[1].untilState # Null
    /\ ~flag
    /\ stubs[1].callCount = MaxTimes + 3
    /\ lastCall.op = "invoke"
    /\ lastCall.source = "default"
    /\ Exhausted(stubs[1])

\* the step is a call on stub a: an invocation of its method, a
\* configuration call, reset() or restore() on its handle
OwnStep(a) ==
    /\ lastCall'.op \in {"invoke", "configure", "reset", "restore"}
    /\ lastCall'.stub = a

\* C33: stubs on different methods share nothing but the registry: an
\* invocation, a configuration call, reset() or restore() of one stub leaves
\* the other's call count, argument log, behaviour slots, pending mode and
\* installed interception function as they were.
C33_StubsIndependent ==
    [][LET a == lastCall'.stub
       IN  (a \in StubIds /\ OwnStep(a)) =>
              \A b \in StubIds :
                 stubs[b].tgt # stubs[a].tgt =>
                    /\ stubs'[b] = stubs[b]
                    /\ target'[stubs[b].tgt] = target[stubs[b].tgt]]_vars

\* stubs on a.fn and b.fn: the first was configured and called once, then
\* the second was restored, and the first is still installed with its count
C33_Witness ==
    /\ Len(stubs) = 2
    /\ stubs[1].tgt # stubs[2].tgt
    /\ lastCall = Did("restore", 2)
    /\ activeRestores = <<1>>
    /\ target[stubs[1].tgt] = stubs[1].mockerFn
    /\ target[stubs[2].tgt] = Orig(stubs[2].tgt)
    /\ stubs[1].implementation = ReturnsImpl("A")
    /\ stubs[1].callCount = 1

----------------------------------------------------------------------------
(* Handle: one stub on which every method of the handle is called, before
   and after restore(); the stubbed method itself is not invoked *)

NextHandle ==
    \/ \E s \in StubIds : Once(s)
    \/ \E s \in StubIds : Times(s, 1)
    \/ \E s \in StubIds : OnCall(s, 1)
    \/ \E s \in StubIds : Until(s, "always", NullNum)
    \/ \E s \in StubIds : WithArgsReturns(s, <<1>>, "X", MaxRules)
    \/ \E s \in StubIds : Returns(s, "A")
    \/ \E s \in StubIds, e \in Errors : Throws(s, e)
    \/ \E s \in StubIds : Resolves(s, "A")
    \/ \E s \in StubIds : Reset(s)
    \/ \E s \in StubIds : Called(s)
    \/ \E s \in StubIds : CalledArgs(s)
    \/ \E s \in StubIds : Restore(s)

SpecHandle == InitOne /\ [][NextHandle]_vars

\* the step is a configuration or inspection call on the handle of stub s
HandleStep(s) ==
    /\ lastCall'.op \in {"configure", "reset", "called", "calledArgs"}
    /\ lastCall'.stub = s

\* C34: the target member and the registry are written only by mock() and
\* by a restore action: a configuration or inspection call on a handle
\* leaves both as they are, so on a restored stub it does not put the
\* interception function back.
C34_HandleLeavesTarget ==
    [][/\ (target' # target \/ activeRestores' # activeRestores) =>
             lastCall'.op \in {"mock", "restore", "restoreAll"}
       /\ \A s \in StubIds :
             HandleStep(s) =>
                /\ target' = target
                /\ activeRestores' = activeRestores
                /\ (s \in Restored /\ target[stubs[s].tgt] # stubs[s].mockerFn) =>
                      target'[stubs[s].tgt] # stubs[s].mockerFn]_vars

\* a restored stub (not registered, the member is the original) that holds
\* a default, a withArgs rule and an until rule, on which reset() has just
\* run: the member is still the original
C34_Witness ==
    /\ Len(stubs) = 1
    /\ lastCall.op = "reset"
    /\ activeRestores = <<>>
    /\ target[stubs[1].tgt] = Orig(stubs[1].tgt)
    /\ stubs[1].implementation = ReturnsImpl("A")
    /\ stubs[1].argRules # <<>>
    /\ stubs[1].untilState # Null
    /\ stubs[1].callCount = 0

====
